---------------------------- MODULE Spec2Model ----------------------------
(***************************************************************************)
(* Reservation lock engine of skyride-booking: the holds API               *)
(* (backend/api/routes/holds.py) over the Redis service                    *)
(* (backend/redis_service.py).                                             *)
(*                                                                         *)
(* Every request is one coroutine.  A coroutine runs without interruption  *)
(* from one `await` on the store to the next, so each action below is one  *)
(* store round trip followed by the synchronous code up to the next await. *)
(* Optional values (Python None) are sequences of length 0 or 1.           *)
(***************************************************************************)
EXTENDS Integers, Sequences, FiniteSets, TLC

\* ------------------------------------------------------------------ bounds
MaxReq == 2       \* requests handled in one run
MaxRace == 3      \* requests of one race of create_hold calls
MaxTicks == 1     \* clock advances in one run

\* ------------------------------------------------------- program constants
SecondsPerMinute == 60   \* hold_duration_minutes * 60
IdemTTL == 86400         \* idempotency window, 24h

Listings == {"ac1", "ac2"}
RateKeys == {"ip1:/api/holds"}   \* f"{client_ip}:{endpoint}"
Keys == {"K1"}
Durations == {1}         \* duration_minutes of a well-formed request
TickSteps == {1, SecondsPerMinute, IdemTTL}   \* seconds the clock may advance in one step

None == << >>
Some(x) == << x >>
IsSome(o) == Len(o) = 1
Val(o) == o[1]

NoKey == None            \* the Idempotency-Key header is absent

Reqs == 1..(IF MaxReq > MaxRace THEN MaxReq ELSE MaxRace)

VARIABLES
    now,        \* wall clock / store clock, seconds
    ticks,      \* how many times the clock advanced
    storeUp,    \* the store answers (FALSE: every store call raises)
    hold,       \* store keys hold:{listing_id}
    cache,      \* store keys idempotency:{sha256(key)}
    nreq,       \* requests that have arrived
    pc,         \* each request's position
    req,        \* each request's input
    loc,        \* each request's local variables
    res,        \* each request's response
    nextInst,   \* history: per listing, the number of acquisitions so far
    slots,      \* table availability_slots
    rate_limit  \* store keys rate_limit:{key}, sorted sets

vars ==
    << now, ticks, storeUp, hold, cache, nreq, pc, req, loc, res, nextInst, slots,
       rate_limit >>

\* --------------------------------------------------------------- the store

\* hold_data as create_hold_lock builds it; expire_at is the key's EX deadline,
\* inst a history field naming the acquisition.
HoldData(l, dur) ==
    [ listing_id |-> l,
      created_at |-> now,
      expires_in_seconds |-> dur * SecondsPerMinute ]

\* redis TTL: seconds left; -2 when the key does not exist.
RedisTTL(l) ==
    IF IsSome(hold[l]) THEN Val(hold[l]).expire_at - now ELSE -2

\* RedisService.ttl: -1 when the call raises.
Ttl(l) == IF storeUp THEN RedisTTL(l) ELSE -1

\* RedisService.get / get_json on hold:{l}: None when absent or when the call raises.
GetJson(l) ==
    IF storeUp /\ IsSome(hold[l])
    THEN Some([ data |-> Val(hold[l]).data, inst |-> Val(hold[l]).inst ])
    ELSE None

\* hold_id = f"hold_{listing_id}_{created_at}"
HoldId(l, created) == << "hold", l, created >>

\* key_hash = sha256(idempotency_key).hexdigest(): one digest per raw key.
KeyHash(k) == << "sha256", k >>
KeyHashes == { KeyHash(k) : k \in Keys }

EmptyLoc ==
    [ hold_created |-> FALSE, got |-> None, ttl |-> 0,
      rows |-> << >>, out |-> << >>,
      overlapping_slots |-> {}, existing_slot |-> None,
      myInst |-> 0, ranAcquire |-> FALSE, sawError |-> FALSE ]

NoReq ==
    [ op |-> "none", listing |-> "ac1", dur |-> 1, key |-> NoKey,
      aircraft_id |-> None, start |-> 0, end |-> 0, status |-> "AVAILABLE",
      rate_key |-> "", limit |-> 0, window |-> 0 ]

NoRes ==
    [ code |-> 0, status |-> "PENDING", body |-> None, existing |-> None,
      replayed |-> FALSE, inst |-> 0, at |-> 0 ]

\* The schedule has no slot.
NoSlots == {}

\* The store holds nothing.
Fresh ==
    /\ now = 0
    /\ ticks = 0
    /\ storeUp = TRUE
    /\ hold = [ l \in Listings |-> None ]
    /\ cache = [ h \in KeyHashes |-> None ]
    /\ nreq = 0
    /\ pc = [ w \in Reqs |-> "idle" ]
    /\ req = [ w \in Reqs |-> NoReq ]
    /\ loc = [ w \in Reqs |-> EmptyLoc ]
    /\ res = [ w \in Reqs |-> NoRes ]
    /\ nextInst = [ l \in Listings |-> 0 ]
    /\ slots = NoSlots
    /\ rate_limit = [ k \in RateKeys |-> None ]

\* The hold an earlier create_hold("ac1", 1) left in the store at second 0.
EarlierHold ==
    Some([ data |-> [ listing_id |-> "ac1", created_at |-> 0,
                      expires_in_seconds |-> SecondsPerMinute ],
           expire_at |-> SecondsPerMinute,
           inst |-> 1 ])

\* The run starts with an empty store or with that earlier hold in it.
Init ==
    /\ now = 0
    /\ ticks = 0
    /\ storeUp = TRUE
    /\ \/ hold = [ l \in Listings |-> None ]
          /\ nextInst = [ l \in Listings |-> 0 ]
       \/ hold = [ l \in Listings |-> IF l = "ac1" THEN EarlierHold ELSE None ]
          /\ nextInst = [ l \in Listings |-> IF l = "ac1" THEN 1 ELSE 0 ]
    /\ cache = [ h \in KeyHashes |-> None ]
    /\ nreq = 0
    /\ pc = [ w \in Reqs |-> "idle" ]
    /\ req = [ w \in Reqs |-> NoReq ]
    /\ loc = [ w \in Reqs |-> EmptyLoc ]
    /\ res = [ w \in Reqs |-> NoRes ]
    /\ slots = NoSlots
    /\ rate_limit = [ k \in RateKeys |-> None ]

\* ------------------------------------------------------------ responses

\* HTTPException(500): "Failed to create hold" / "... get hold status" / "... release hold".
Err500 == [ NoRes EXCEPT !.code = 500, !.status = "ERROR" ]

\* HTTPException(409) with detail.existing_hold = get_hold_info's dict.
Conflict(got, ttl) ==
    [ NoRes EXCEPT !.code = 409, !.status = "CONFLICT",
                   !.existing = Some([ listing_id |-> got.data.listing_id,
                                       created_at |-> got.data.created_at,
                                       expires_in_seconds |-> got.data.expires_in_seconds,
                                       remaining_seconds |-> ttl ]),
                   !.inst = got.inst ]

\* The response whose hold_id is stamped with the clock of the answer instead
\* of the record's created_at.
HoldBody_Clock(l, got, ttl) ==
    [ hold_id |-> HoldId(l, now),
      listing_id |-> l,
      status |-> "ACTIVE",
      expires_at |-> got.data.created_at + got.data.expires_in_seconds,
      remaining_seconds |-> ttl ]

\* hold_response of create_hold, and the dict get_hold_status returns.
HoldBody(l, got, ttl) ==
    [ hold_id |-> HoldId(l, got.data.created_at),
      listing_id |-> l,
      status |-> "ACTIVE",
      expires_at |-> got.data.created_at + got.data.expires_in_seconds,
      remaining_seconds |-> ttl ]

Active(body, replayed, inst) ==
    [ NoRes EXCEPT !.code = 200, !.status = "ACTIVE", !.body = Some(body),
                   !.replayed = replayed, !.inst = inst ]

NoHoldRes == [ NoRes EXCEPT !.code = 200, !.status = "NO_HOLD" ]
Released == [ NoRes EXCEPT !.code = 200, !.status = "RELEASED" ]
NotFound == [ NoRes EXCEPT !.code = 404, !.status = "NOT_FOUND" ]

\* A request returns: its coroutine ends with response r.
Finish(w, r) ==
    /\ pc' = [ pc EXCEPT ![w] = "done" ]
    /\ res' = [ res EXCEPT ![w] = [ r EXCEPT !.at = now ] ]

\* The coroutine's frame is dropped on return; the history fields stay.
Drop(l) ==
    [ l EXCEPT !.got = None, !.ttl = 0, !.rows = << >>, !.out = << >>,
               !.overlapping_slots = {}, !.existing_slot = None ]

\* Local variables after a store call: the call raised iff the store is down.
Saw(l) == [ l EXCEPT !.sawError = l.sawError \/ ~storeUp ]

\* ------------------------------------------------- the idempotency cache

\* lookup(key_hash): the cached response, None on a miss.
get_idempotency_result(h) ==
    IF IsSome(cache[h]) THEN Some(Val(cache[h]).response) ELSE None

\* store(key_hash, response, ttl_seconds = 86400): RedisService.set with
\* expire, i.e. SETEX, which writes whether or not the key exists.
store_idempotency_key(h, response) ==
    [ cache EXCEPT ![h] = Some([ response |-> response,
                                 expire_at |-> now + IdemTTL ]) ]

\* --------------------------------------------------------- create_hold
\* A request is numbered by its arrival; it arrives with its first store call.

Arrive(w, op, l, d, k) ==
    /\ w = nreq + 1
    /\ nreq' = w
    /\ req' = [ req EXCEPT ![w] =
                  [ NoReq EXCEPT !.op = op, !.listing = l, !.dur = d, !.key = k ] ]

\* The lookup that returns the cached response without setting the flag.
LookupStep_NoFlag(w, k) ==
    LET hit == get_idempotency_result(KeyHash(k)) IN
    /\ loc' = [ loc EXCEPT ![w] = Saw(@) ]
    /\ IF ~storeUp
       THEN Finish(w, Err500)
       ELSE IF IsSome(hit)
       THEN Finish(w, Active(Val(hit).body, FALSE, Val(hit).inst))
       ELSE pc' = [ pc EXCEPT ![w] = "acquire" ] /\ res' = res
    /\ UNCHANGED << hold, cache, nextInst >>

\* The lookup that stores the entry again on a hit, restarting its 24h.
LookupStep_Restore(w, k) ==
    LET hit == get_idempotency_result(KeyHash(k)) IN
    /\ loc' = [ loc EXCEPT ![w] = Saw(@) ]
    /\ IF ~storeUp
       THEN Finish(w, Err500) /\ cache' = cache
       ELSE IF IsSome(hit)
       THEN /\ Finish(w, Active(Val(hit).body, TRUE, Val(hit).inst))
            /\ cache' = store_idempotency_key(KeyHash(k), Val(hit))
       ELSE pc' = [ pc EXCEPT ![w] = "acquire" ] /\ res' = res /\ cache' = cache
    /\ UNCHANGED << hold, nextInst >>

\* existing_result = await redis.get_idempotency_result(key_hash)
\* hit: existing_result["created_from_idempotency"] = True; return it.
LookupStep(w, k) ==
    LET hit == get_idempotency_result(KeyHash(k)) IN
    /\ loc' = [ loc EXCEPT ![w] = Saw(@) ]
    /\ IF ~storeUp
       THEN Finish(w, Err500)
       ELSE IF IsSome(hit)
       THEN Finish(w, Active(Val(hit).body, TRUE, Val(hit).inst))
       ELSE pc' = [ pc EXCEPT ![w] = "acquire" ] /\ res' = res
    /\ UNCHANGED << hold, cache, nextInst >>

\* The acquire as a plain SET EX: without nx=True it writes over a live hold.
AcquireStep_NoNX(w, l, d) ==
    /\ hold' = [ hold EXCEPT ![l] =
                   Some([ data |-> HoldData(l, d),
                          expire_at |-> now + d * SecondsPerMinute,
                          inst |-> nextInst[l] + 1 ]) ]
    /\ nextInst' = [ nextInst EXCEPT ![l] = @ + 1 ]
    /\ loc' = [ loc EXCEPT ![w] =
                  [ @ EXCEPT !.hold_created = TRUE, !.ranAcquire = TRUE,
                             !.myInst = nextInst[l] + 1 ] ]
    /\ pc' = [ pc EXCEPT ![w] = "info_get" ]
    /\ UNCHANGED << cache, res >>

\* The acquire that passes the duration to EX unconverted: the key lives
\* duration_minutes seconds while the record says duration_minutes * 60.
AcquireStep_ExInMinutes(w, l, d) ==
    LET created == storeUp /\ d > 0 /\ ~IsSome(hold[l]) IN
    /\ IF created
       THEN /\ hold' = [ hold EXCEPT ![l] =
                           Some([ data |-> HoldData(l, d),
                                  expire_at |-> now + d,
                                  inst |-> nextInst[l] + 1 ]) ]
            /\ nextInst' = [ nextInst EXCEPT ![l] = @ + 1 ]
       ELSE UNCHANGED << hold, nextInst >>
    /\ loc' = [ loc EXCEPT ![w] =
                  [ @ EXCEPT !.hold_created = created,
                             !.ranAcquire = TRUE,
                             !.myInst = IF created THEN nextInst[l] + 1 ELSE 0,
                             !.sawError = @ \/ ~storeUp \/ d <= 0 ] ]
    /\ pc' = [ pc EXCEPT ![w] = IF created THEN "info_get" ELSE "conf_get" ]
    /\ UNCHANGED << cache, res >>

\* The acquire on one store key for all listings: hold_key without the
\* listing id, so a hold on any listing makes every acquire fail.
AcquireStep_OneKey(w, l, d) ==
    LET ex == d * SecondsPerMinute
        raised == ~storeUp \/ ex <= 0
        created == ~raised /\ \A m \in Listings : ~IsSome(hold[m]) IN
    /\ IF created
       THEN /\ hold' = [ hold EXCEPT ![l] =
                           Some([ data |-> HoldData(l, d),
                                  expire_at |-> now + ex,
                                  inst |-> nextInst[l] + 1 ]) ]
            /\ nextInst' = [ nextInst EXCEPT ![l] = @ + 1 ]
       ELSE UNCHANGED << hold, nextInst >>
    /\ loc' = [ loc EXCEPT ![w] =
                  [ @ EXCEPT !.hold_created = created,
                             !.ranAcquire = TRUE,
                             !.myInst = IF created THEN nextInst[l] + 1 ELSE 0,
                             !.sawError = @ \/ raised ] ]
    /\ pc' = [ pc EXCEPT ![w] = IF created THEN "info_get" ELSE "conf_get" ]
    /\ UNCHANGED << cache, res >>

\* The acquire that, when the listing is held, pushes the hold's expiry out
\* to the new request's duration.
AcquireStep_Extend(w, l, d) ==
    LET ex == d * SecondsPerMinute
        raised == ~storeUp \/ ex <= 0
        created == ~raised /\ ~IsSome(hold[l]) IN
    /\ IF created
       THEN /\ hold' = [ hold EXCEPT ![l] =
                           Some([ data |-> HoldData(l, d),
                                  expire_at |-> now + ex,
                                  inst |-> nextInst[l] + 1 ]) ]
            /\ nextInst' = [ nextInst EXCEPT ![l] = @ + 1 ]
       ELSE /\ hold' = IF ~raised
                       THEN [ hold EXCEPT ![l] = Some([ Val(@) EXCEPT !.expire_at = now + ex ]) ]
                       ELSE hold
            /\ nextInst' = nextInst
    /\ loc' = [ loc EXCEPT ![w] =
                  [ @ EXCEPT !.hold_created = created,
                             !.ranAcquire = TRUE,
                             !.myInst = IF created THEN nextInst[l] + 1 ELSE 0,
                             !.sawError = @ \/ raised ] ]
    /\ pc' = [ pc EXCEPT ![w] = IF created THEN "info_get" ELSE "conf_get" ]
    /\ UNCHANGED << cache, res >>

\* hold_created = await redis.create_hold_lock(listing_id, duration_minutes):
\* SET hold:{listing_id} json NX EX.  The call raises when the store is down
\* and when ex is not positive (the server rejects the expire time);
\* create_hold_lock then returns False.
AcquireStep(w, l, d) ==
    LET ex == d * SecondsPerMinute
        raised == ~storeUp \/ ex <= 0
        created == ~raised /\ ~IsSome(hold[l]) IN
    /\ IF created
       THEN /\ hold' = [ hold EXCEPT ![l] =
                           Some([ data |-> HoldData(l, d),
                                  expire_at |-> now + ex,
                                  inst |-> nextInst[l] + 1 ]) ]
            /\ nextInst' = [ nextInst EXCEPT ![l] = @ + 1 ]
       ELSE UNCHANGED << hold, nextInst >>
    /\ loc' = [ loc EXCEPT ![w] =
                  [ @ EXCEPT !.hold_created = created,
                             !.ranAcquire = TRUE,
                             !.myInst = IF created THEN nextInst[l] + 1 ELSE 0,
                             !.sawError = @ \/ raised ] ]
    /\ pc' = [ pc EXCEPT ![w] = IF created THEN "info_get" ELSE "conf_get" ]
    /\ UNCHANGED << cache, res >>

\* POST /api/holds arrives: the cache lookup when a key is given, else the acquire.
BeginCreate(l, d, k) ==
    /\ LET w == nreq + 1 IN
       /\ Arrive(w, "create", l, d, k)
       /\ IF k # NoKey THEN LookupStep(w, Val(k)) ELSE AcquireStep(w, l, d)
    /\ UNCHANGED << now, ticks, storeUp, slots, rate_limit >>

\* The acquire of a request whose lookup missed.
create_hold_lock(w) ==
    /\ pc[w] = "acquire"
    /\ AcquireStep(w, req[w].listing, req[w].dur)
    /\ UNCHANGED << now, ticks, storeUp, nreq, req, slots, rate_limit >>

\* if not hold_created: existing_hold = await redis.get_hold_info(...): the GET.
\* No record: the `if existing_hold` is skipped and the code goes on to line 98.
ConflictGet(w) ==
    /\ pc[w] = "conf_get"
    /\ LET got == GetJson(req[w].listing) IN
       /\ loc' = [ loc EXCEPT ![w] = [ Saw(@) EXCEPT !.got = got ] ]
       /\ pc' = [ pc EXCEPT ![w] = IF IsSome(got) THEN "conf_ttl" ELSE "info_get" ]
    /\ UNCHANGED << now, ticks, storeUp, hold, cache, nreq, req, res, nextInst, slots, rate_limit >>

\* The conflict path that also stores its answer under the request's key.
ConflictTtl_Cached(w) ==
    /\ pc[w] = "conf_ttl"
    /\ LET l == req[w].listing
           got == Val(loc[w].got)
           ttl == Ttl(l) IN
       /\ Finish(w, Conflict(got, ttl))
       /\ cache' = IF req[w].key # NoKey /\ storeUp
                   THEN store_idempotency_key(KeyHash(Val(req[w].key)),
                            [ body |-> [ HoldBody(l, got, ttl) EXCEPT !.status = "CONFLICT" ],
                              inst |-> got.inst ])
                   ELSE cache
    /\ loc' = [ loc EXCEPT ![w] = Drop(Saw(@)) ]
    /\ UNCHANGED << now, ticks, storeUp, hold, nreq, req, nextInst, slots, rate_limit >>

\* get_hold_info's TTL call, then raise HTTPException(409)
ConflictTtl(w) ==
    /\ pc[w] = "conf_ttl"
    /\ Finish(w, Conflict(Val(loc[w].got), Ttl(req[w].listing)))
    /\ loc' = [ loc EXCEPT ![w] = Drop(Saw(@)) ]
    /\ UNCHANGED << now, ticks, storeUp, hold, cache, nreq, req, nextInst, slots, rate_limit >>

\* hold_info = await redis.get_hold_info(...): the GET; 500 when there is none.
InfoGet(w) ==
    /\ pc[w] = "info_get"
    /\ LET got == GetJson(req[w].listing) IN
       IF IsSome(got)
       THEN /\ loc' = [ loc EXCEPT ![w] = [ Saw(@) EXCEPT !.got = got ] ]
            /\ pc' = [ pc EXCEPT ![w] = "info_ttl" ]
            /\ res' = res
       ELSE /\ loc' = [ loc EXCEPT ![w] = Drop(Saw(@)) ]
            /\ Finish(w, Err500)
    /\ UNCHANGED << now, ticks, storeUp, hold, cache, nreq, req, nextInst, slots, rate_limit >>

\* get_hold_info's TTL call; build hold_response; return it, or await the
\* idempotency store first when a key was given.
InfoTtl(w) ==
    /\ pc[w] = "info_ttl"
    /\ LET l == req[w].listing
           ttl == Ttl(l) IN
       IF req[w].key # NoKey
       THEN /\ loc' = [ loc EXCEPT ![w] = [ Saw(@) EXCEPT !.ttl = ttl ] ]
            /\ pc' = [ pc EXCEPT ![w] = "store" ]
            /\ res' = res
       ELSE /\ loc' = [ loc EXCEPT ![w] = Drop(Saw(@)) ]
            /\ Finish(w, Active(HoldBody(l, Val(loc[w].got), ttl), FALSE,
                                Val(loc[w].got).inst))
    /\ UNCHANGED << now, ticks, storeUp, hold, cache, nreq, req, nextInst, slots, rate_limit >>

\* await redis.store_idempotency_key(key_hash, hold_response); return
StoreKey(w) ==
    /\ pc[w] = "store"
    /\ LET l == req[w].listing
           got == Val(loc[w].got)
           body == HoldBody(l, got, loc[w].ttl) IN
       /\ loc' = [ loc EXCEPT ![w] = Drop(Saw(@)) ]
       /\ IF ~storeUp
          THEN /\ Finish(w, Err500)
               /\ cache' = cache
          ELSE /\ cache' = store_idempotency_key(KeyHash(Val(req[w].key)),
                                                 [ body |-> body, inst |-> got.inst ])
               /\ Finish(w, Active(body, FALSE, got.inst))
    /\ UNCHANGED << now, ticks, storeUp, hold, nreq, req, nextInst, slots, rate_limit >>

\* ----------------------------------------------------- get_hold_status

\* GET /api/holds/{listing_id} arrives:
\* hold_info = await redis.get_hold_info(listing_id): the GET
BeginStatus(l) ==
    /\ LET w == nreq + 1
           got == GetJson(l) IN
       /\ Arrive(w, "status", l, 1, NoKey)
       /\ IF IsSome(got)
          THEN /\ loc' = [ loc EXCEPT ![w] = [ Saw(@) EXCEPT !.got = got ] ]
               /\ pc' = [ pc EXCEPT ![w] = "st_ttl" ]
               /\ res' = res
          ELSE /\ loc' = [ loc EXCEPT ![w] = Saw(@) ]
               /\ Finish(w, NoHoldRes)
    /\ UNCHANGED << now, ticks, storeUp, hold, cache, nextInst, slots, rate_limit >>

\* The status read that re-arms the hold's expiry to its full length.
StatusTtl_Refresh(w) ==
    /\ pc[w] = "st_ttl"
    /\ LET l == req[w].listing IN
       /\ loc' = [ loc EXCEPT ![w] = Drop(Saw(@)) ]
       /\ Finish(w, Active(HoldBody(l, Val(loc[w].got), Ttl(l)), FALSE,
                           Val(loc[w].got).inst))
       /\ hold' = IF IsSome(hold[l])
                  THEN [ hold EXCEPT ![l] =
                           Some([ Val(@) EXCEPT !.expire_at =
                                     now + Val(hold[l]).data.expires_in_seconds ]) ]
                  ELSE hold
    /\ UNCHANGED << now, ticks, storeUp, cache, nreq, req, nextInst, slots, rate_limit >>

\* get_hold_info's TTL call, then the hold_exists: True response
StatusTtl(w) ==
    /\ pc[w] = "st_ttl"
    /\ LET l == req[w].listing IN
       /\ loc' = [ loc EXCEPT ![w] = Drop(Saw(@)) ]
       /\ Finish(w, Active(HoldBody(l, Val(loc[w].got), Ttl(l)), FALSE,
                           Val(loc[w].got).inst))
    /\ UNCHANGED << now, ticks, storeUp, hold, cache, nreq, req, nextInst, slots, rate_limit >>

\* -------------------------------------------------------- release_hold

\* A delete that reports success whenever the call did not raise.
release_hold_lock_AnyResult(l) == storeUp

\* RedisService.delete: DEL returns the number of keys removed; False on error.
release_hold_lock(l) == storeUp /\ IsSome(hold[l])

\* DELETE /api/holds/{listing_id}:
\* released = await redis.release_hold_lock(listing_id); 404 when not released
ReleaseHold(l) ==
    /\ LET w == nreq + 1 IN
       /\ Arrive(w, "release", l, 1, NoKey)
       /\ hold' = IF storeUp THEN [ hold EXCEPT ![l] = None ] ELSE hold
       /\ loc' = [ loc EXCEPT ![w] = Saw(@) ]
       /\ Finish(w, IF release_hold_lock(l) THEN Released ELSE NotFound)
    /\ UNCHANGED << now, ticks, storeUp, cache, nextInst, slots, rate_limit >>

\* ------------------------------------------------ the availability overlay
\* services/availability.py.  Times are seconds on the clock of `now`.

\* A row of availability_slots.
Slot(a, s, e, st) ==
    [ aircraft_id |-> a, start_time |-> s, end_time |-> e, status |-> st ]

\* order_by(aircraft_id, start_time)
AircraftOrder(a) == IF a = "ac1" THEN 1 ELSE 2

Before(x, y) ==
    \/ AircraftOrder(x.aircraft_id) < AircraftOrder(y.aircraft_id)
    \/ x.aircraft_id = y.aircraft_id /\ x.start_time < y.start_time

\* The rows S in the order of the query.
Sorted(S) ==
    CHOOSE q \in [ 1..Cardinality(S) -> S ] :
        /\ \A i, j \in 1..Cardinality(S) : i < j => Before(q[i], q[j])
        /\ \A x \in S : \E i \in 1..Cardinality(S) : q[i] = x

\* get_availability's query: the optional aircraft filter, end_time >=
\* start_date, start_time <= end_date.
SelectSlots(a, s, e) ==
    Sorted({ x \in slots : /\ IsSome(a) => x.aircraft_id = Val(a)
                           /\ x.end_time >= s
                           /\ x.start_time <= e })

\* The overlap query on closed intervals: a row that ends where the window
\* starts, or starts where it ends, is found too.
ConflictingSlots_Closed(a, s, e) ==
    { x \in slots :
        /\ x.aircraft_id = a
        /\ x.start_time <= e
        /\ x.end_time >= s }

\* The overlap query without its third clause: a row lying strictly inside
\* the window is not found.
ConflictingSlots_NoContainment(a, s, e) ==
    { x \in slots :
        /\ x.aircraft_id = a
        /\ \/ x.start_time <= s /\ x.end_time > s
           \/ x.start_time < e /\ x.end_time >= e }

\* The overlap query of check_slot_availability and of create_or_update_slot:
\* the rows of one aircraft that meet the window by one of the three clauses.
ConflictingSlots(a, s, e) ==
    { x \in slots :
        /\ x.aircraft_id = a
        /\ \/ x.start_time <= s /\ x.end_time > s
           \/ x.start_time < e /\ x.end_time >= e
           \/ x.start_time >= s /\ x.end_time <= e }

\* The overlay that never consults the lock state.
slot_data_NoOverlay(slot, hold_info) ==
    [ aircraft_id |-> slot.aircraft_id,
      start_time |-> slot.start_time,
      end_time |-> slot.end_time,
      status |-> slot.status,
      hold_info |-> None,
      effective_status |-> slot.status ]

\* The overlay that shows every slot without a hold as AVAILABLE.
slot_data_Restore(slot, hold_info) ==
    [ aircraft_id |-> slot.aircraft_id,
      start_time |-> slot.start_time,
      end_time |-> slot.end_time,
      status |-> slot.status,
      hold_info |-> hold_info,
      effective_status |-> IF IsSome(hold_info) THEN "ON_HOLD" ELSE "AVAILABLE" ]

\* slot_data of get_availability: an AVAILABLE slot is ON_HOLD when
\* get_hold_info gave a hold, every other slot keeps its status.
slot_data(slot, hold_info) ==
    [ aircraft_id |-> slot.aircraft_id,
      start_time |-> slot.start_time,
      end_time |-> slot.end_time,
      status |-> slot.status,
      hold_info |-> IF slot.status = "AVAILABLE" THEN hold_info ELSE None,
      effective_status |->
          IF slot.status = "AVAILABLE"
          THEN IF IsSome(hold_info) THEN "ON_HOLD" ELSE "AVAILABLE"
          ELSE slot.status ]

\* get_hold_info(aircraft_id, start, end): the read of the lock store for an
\* active hold on the aircraft that overlaps the window; the hold's window
\* runs from created_at for ttl_seconds.
get_hold_info(a, s, e) ==
    IF /\ IsSome(hold[a])
       /\ Val(hold[a]).data.created_at < e
       /\ s < Val(hold[a]).data.created_at + Val(hold[a]).data.expires_in_seconds
    THEN Some([ listing_id |-> a,
                created_at |-> Val(hold[a]).data.created_at,
                expires_in_seconds |-> Val(hold[a]).data.expires_in_seconds,
                remaining_seconds |-> RedisTTL(a) ])
    ELSE None

\* The list get_availability returns.
SlotsRes(out) ==
    [ NoRes EXCEPT !.code = 200, !.status = "SLOTS", !.body = Some([ slots |-> out ]) ]

\* The dict check_slot_availability returns.
Decision(available, reason, hold_info, rows) ==
    [ NoRes EXCEPT !.code = 200, !.status = "DECISION",
                   !.body = Some([ available |-> available,
                                   reason |-> reason,
                                   hold_info |-> hold_info,
                                   slots |-> rows ]) ]

\* A read of the schedule arrives.
ArriveQuery(w, op, a, s, e) ==
    /\ w = nreq + 1
    /\ nreq' = w
    /\ req' = [ req EXCEPT ![w] =
                  [ NoReq EXCEPT !.op = op, !.aircraft_id = a, !.start = s, !.end = e,
                                 !.listing = IF IsSome(a) THEN Val(a) ELSE "ac1" ] ]

\* The leading rows that need no hold lookup.
Lead(rows) ==
    IF \E i \in 1..Len(rows) : rows[i].status = "AVAILABLE"
    THEN (CHOOSE i \in 1..Len(rows) :
             /\ rows[i].status = "AVAILABLE"
             /\ \A j \in 1..(i - 1) : rows[j].status # "AVAILABLE") - 1
    ELSE Len(rows)

\* The loop of get_availability from the row it stands at: rows that are not
\* AVAILABLE are copied at once; at an AVAILABLE row the coroutine awaits
\* get_hold_info; after the last row it returns.
Enrich(w, rows, out) ==
    LET n == Lead(rows)
        out2 == out \o [ i \in 1..n |-> slot_data(rows[i], None) ]
        rest == SubSeq(rows, n + 1, Len(rows)) IN
    IF rest = << >>
    THEN /\ Finish(w, SlotsRes(out2))
         /\ loc' = [ loc EXCEPT ![w] = Drop(@) ]
    ELSE /\ pc' = [ pc EXCEPT ![w] = "av_hold" ]
         /\ loc' = [ loc EXCEPT ![w] = [ @ EXCEPT !.rows = rest, !.out = out2 ] ]
         /\ res' = res

\* get_availability arrives: the query of the schedule, then the loop.
BeginAvailability(a, s, e) ==
    /\ LET w == nreq + 1 IN
       /\ ArriveQuery(w, "availability", a, s, e)
       /\ Enrich(w, SelectSlots(a, s, e), << >>)
    /\ UNCHANGED << now, ticks, storeUp, hold, cache, nextInst, slots, rate_limit >>

\* hold_info = await get_hold_info(slot.aircraft_id, slot.start_time,
\* slot.end_time) for the AVAILABLE row the loop stands at; the loop goes on.
AvailabilityHold(w) ==
    /\ pc[w] = "av_hold"
    /\ LET slot == Head(loc[w].rows)
           hold_info == get_hold_info(slot.aircraft_id, slot.start_time, slot.end_time) IN
       Enrich(w, Tail(loc[w].rows), Append(loc[w].out, slot_data(slot, hold_info)))
    /\ UNCHANGED << now, ticks, storeUp, hold, cache, nreq, req, nextInst, slots, rate_limit >>

\* The blocking test that forgets MAINTENANCE.
Blocking_BusyOnly(rows) == { x \in rows : x.status = "BUSY" }

\* blocking_slots: the conflicting rows that are BUSY or MAINTENANCE.
Blocking(rows) == { x \in rows : x.status \in {"BUSY", "MAINTENANCE"} }

\* check_slot_availability arrives: the query of the schedule; SLOT_CONFLICT
\* when a row blocks, else the coroutine awaits get_hold_info.
BeginCheck(a, s, e) ==
    /\ LET w == nreq + 1
           conflicting_slots == ConflictingSlots(a, s, e)
           blocking_slots == Blocking(conflicting_slots) IN
       /\ ArriveQuery(w, "check", Some(a), s, e)
       /\ IF blocking_slots # {}
          THEN /\ Finish(w, Decision(FALSE, Some("SLOT_CONFLICT"), None, blocking_slots))
               /\ loc' = loc
          ELSE /\ pc' = [ pc EXCEPT ![w] = "ck_hold" ]
               /\ loc' = [ loc EXCEPT ![w] = [ @ EXCEPT !.rows = Sorted(conflicting_slots) ] ]
               /\ res' = res
    /\ UNCHANGED << now, ticks, storeUp, hold, cache, nextInst, slots, rate_limit >>

\* hold_info = await get_hold_info(aircraft_id, start_time, end_time):
\* ACTIVE_HOLD with the hold, else available with the AVAILABLE rows.
CheckHold(w) ==
    /\ pc[w] = "ck_hold"
    /\ LET hold_info == get_hold_info(Val(req[w].aircraft_id), req[w].start, req[w].end)
           rows == { loc[w].rows[i] : i \in 1..Len(loc[w].rows) } IN
       IF IsSome(hold_info)
       THEN Finish(w, Decision(FALSE, Some("ACTIVE_HOLD"), hold_info, {}))
       ELSE Finish(w, Decision(TRUE, None, None,
                               { x \in rows : x.status = "AVAILABLE" }))
    /\ loc' = [ loc EXCEPT ![w] = Drop(@) ]
    /\ UNCHANGED << now, ticks, storeUp, hold, cache, nreq, req, nextInst, slots, rate_limit >>

\* ------------------------------------------------- create_or_update_slot
\* POST /api/ops/slots (api/routes/ops_slots.py) over
\* AvailabilityService.create_or_update_slot.

\* The SlotResponse of a stored slot.
SlotRes(slot) ==
    [ NoRes EXCEPT !.code = 200, !.status = "SLOT", !.body = Some(slot) ]

\* 400 "End time must be after start time"; 409 for the ValueError of an
\* overlap; 500 for any other exception.
BadRange == [ NoRes EXCEPT !.code = 400, !.status = "BAD_RANGE" ]
SlotOverlap == [ NoRes EXCEPT !.code = 409, !.status = "SLOT_OVERLAP" ]

\* exact_match_query: the rows with the call's aircraft, start and end.
ExactMatches(a, s, e) ==
    { x \in slots : x.aircraft_id = a /\ x.start_time = s /\ x.end_time = e }

\* The call arrives: the route's range check, then the overlap query.
BeginSlot(a, s, e, st) ==
    /\ LET w == nreq + 1 IN
       /\ w = nreq + 1
       /\ nreq' = w
       /\ req' = [ req EXCEPT ![w] =
                     [ NoReq EXCEPT !.op = "slot", !.aircraft_id = Some(a), !.listing = a,
                                    !.start = s, !.end = e, !.status = st ] ]
       /\ IF e <= s
          THEN /\ Finish(w, BadRange)
               /\ loc' = loc
          ELSE /\ pc' = [ pc EXCEPT ![w] = "slot_exact" ]
               /\ loc' = [ loc EXCEPT ![w] =
                             [ @ EXCEPT !.overlapping_slots = ConflictingSlots(a, s, e) ] ]
               /\ res' = res
    /\ UNCHANGED << now, ticks, storeUp, hold, cache, nextInst, slots, rate_limit >>

\* The exact match query (scalar_one_or_none raises on several rows); with
\* no exact match, the ValueError when the overlap query found rows.
SlotExact(w) ==
    /\ pc[w] = "slot_exact"
    /\ LET found == ExactMatches(Val(req[w].aircraft_id), req[w].start, req[w].end) IN
       IF Cardinality(found) > 1
       THEN /\ Finish(w, Err500)
            /\ loc' = [ loc EXCEPT ![w] = Drop(@) ]
       ELSE IF found # {}
       THEN /\ pc' = [ pc EXCEPT ![w] = "slot_update" ]
            /\ loc' = [ loc EXCEPT ![w] =
                          [ @ EXCEPT !.existing_slot = Some(CHOOSE x \in found : TRUE) ] ]
            /\ res' = res
       ELSE IF loc[w].overlapping_slots # {}
       THEN /\ Finish(w, SlotOverlap)
            /\ loc' = [ loc EXCEPT ![w] = Drop(@) ]
       ELSE /\ pc' = [ pc EXCEPT ![w] = "slot_insert" ]
            /\ loc' = loc
            /\ res' = res
    /\ UNCHANGED << now, ticks, storeUp, hold, cache, nreq, req, nextInst, slots, rate_limit >>

\* existing_slot.status = status; commit; refresh; return existing_slot
SlotUpdate(w) ==
    /\ pc[w] = "slot_update"
    /\ LET old == Val(loc[w].existing_slot)
           new == [ old EXCEPT !.status = req[w].status ] IN
       /\ slots' = (slots \ {old}) \cup {new}
       /\ Finish(w, SlotRes(new))
    /\ loc' = [ loc EXCEPT ![w] = Drop(@) ]
    /\ UNCHANGED << now, ticks, storeUp, hold, cache, nreq, req, nextInst, rate_limit >>

\* session.add(new_slot); commit; refresh; return new_slot
SlotInsert(w) ==
    /\ pc[w] = "slot_insert"
    /\ LET new_slot == Slot(Val(req[w].aircraft_id), req[w].start, req[w].end,
                            req[w].status) IN
       /\ slots' = slots \cup {new_slot}
       /\ Finish(w, SlotRes(new_slot))
    /\ loc' = [ loc EXCEPT ![w] = Drop(@) ]
    /\ UNCHANGED << now, ticks, storeUp, hold, cache, nreq, req, nextInst, rate_limit >>

\* ------------------------------------------------------ the rate limiter
\* ratelimit.py.  The sorted set of a key holds one member per
\* str(current_time), scored by current_time.

\* The wrapper's answers: the wrapped route runs, or HTTP 429.
Admitted == [ NoRes EXCEPT !.code = 200, !.status = "ADMITTED" ]
Limited == [ NoRes EXCEPT !.code = 429, !.status = "RATE_LIMITED" ]

\* The members of rate_limit:{key}.
Scores(key) == IF IsSome(rate_limit[key]) THEN Val(rate_limit[key]).scores ELSE {}

\* rate_limit(limit, window)'s wrapper around is_rate_limited(key, limit,
\* window): one MULTI/EXEC pipeline of ZREMRANGEBYSCORE 0 window_start, ZCARD,
\* ZADD {str(current_time): current_time}, EXPIRE window + 10; limited when
\* the count is at least limit.  When the pipeline raises, the wrapper goes
\* on without rate limiting.
is_rate_limited(key, limit, window) ==
    /\ LET w == nreq + 1
           current_time == now
           window_start == current_time - window
           kept == { t \in Scores(key) : t > window_start }
           current_count == Cardinality(kept) IN
       /\ w = nreq + 1
       /\ nreq' = w
       /\ req' = [ req EXCEPT ![w] =
                     [ NoReq EXCEPT !.op = "rate", !.rate_key = key,
                                    !.limit = limit, !.window = window ] ]
       /\ loc' = [ loc EXCEPT ![w] = Saw(@) ]
       /\ IF storeUp
          THEN /\ rate_limit' = [ rate_limit EXCEPT ![key] =
                                    Some([ scores |-> kept \cup {current_time},
                                           expire_at |-> now + window + 10 ]) ]
               /\ Finish(w, IF current_count >= limit THEN Limited ELSE Admitted)
          ELSE /\ rate_limit' = rate_limit
               /\ Finish(w, Admitted)
    /\ UNCHANGED << now, ticks, storeUp, hold, cache, nextInst, slots >>

\* ------------------------------------------------------- the environment

\* The store that keeps a key for a day past its EX deadline.
Expired_Late(o, t) == IsSome(o) /\ Val(o).expire_at + IdemTTL <= t

\* Store keys whose EX deadline has passed are gone.
Expired(o, t) == IsSome(o) /\ Val(o).expire_at <= t

\* The clock advances d seconds; the store evicts what has expired.
Tick(d) ==
    /\ ticks < MaxTicks
    /\ ticks' = ticks + 1
    /\ now' = now + d
    /\ hold' = [ l \in Listings |-> IF Expired(hold[l], now + d) THEN None ELSE hold[l] ]
    /\ cache' = [ h \in KeyHashes |-> IF Expired(cache[h], now + d) THEN None ELSE cache[h] ]
    /\ rate_limit' = [ k \in RateKeys |->
                         IF Expired(rate_limit[k], now + d) THEN None ELSE rate_limit[k] ]
    /\ UNCHANGED << storeUp, nreq, pc, req, loc, res, nextInst, slots >>

\* The store becomes unreachable / reachable again.
StoreFail ==
    /\ storeUp
    /\ storeUp' = FALSE
    /\ UNCHANGED << now, ticks, hold, cache, nreq, pc, req, loc, res, nextInst, slots, rate_limit >>

StoreRecover ==
    /\ ~storeUp
    /\ storeUp' = TRUE
    /\ UNCHANGED << now, ticks, hold, cache, nreq, pc, req, loc, res, nextInst, slots, rate_limit >>

\* ---------------------------------------------------- specifications

AllKeys == {NoKey} \cup { Some(x) : x \in Keys }

\* A request for one of the listings L arrives.
Arrivals(L) ==
    \/ \E l \in L, d \in Durations, k \in AllKeys : BeginCreate(l, d, k)
    \/ \E l \in L : BeginStatus(l)
    \/ \E l \in L : ReleaseHold(l)

Next ==
    \/ nreq < MaxReq /\ Arrivals({"ac1"})
    \/ \E w \in Reqs : create_hold_lock(w)
    \/ \E w \in Reqs : ConflictGet(w)
    \/ \E w \in Reqs : ConflictTtl(w)
    \/ \E w \in Reqs : InfoGet(w)
    \/ \E w \in Reqs : InfoTtl(w)
    \/ \E w \in Reqs : StoreKey(w)
    \/ \E w \in Reqs : StatusTtl(w)
    \/ \E d \in TickSteps : Tick(d)

\* The engine with a reachable store, all requests on one listing.
Spec == Init /\ [][Next]_vars

\* The engine with a store that may fail and recover at any moment.
NextOutage == Next \/ StoreFail \/ StoreRecover

SpecOutage == Init /\ [][NextOutage]_vars

\* N create_hold requests without a key on an empty store and nothing else:
\* no release, no expiry, no outage.
NextRace ==
    \/ nreq < MaxRace /\ \E l \in Listings, d \in Durations : BeginCreate(l, d, NoKey)
    \/ \E w \in Reqs : ConflictGet(w)
    \/ \E w \in Reqs : ConflictTtl(w)
    \/ \E w \in Reqs : InfoGet(w)
    \/ \E w \in Reqs : InfoTtl(w)

SpecRace == Fresh /\ [][NextRace]_vars

\* A hold is released and the listing is held again: create_hold without a
\* key and release_hold on one listing, with no clock advance and no outage.
NextRecreate ==
    \/ nreq < MaxRace /\ \E d \in Durations : BeginCreate("ac1", d, NoKey)
    \/ nreq < MaxRace /\ ReleaseHold("ac1")
    \/ \E w \in Reqs : ConflictGet(w)
    \/ \E w \in Reqs : ConflictTtl(w)
    \/ \E w \in Reqs : InfoGet(w)
    \/ \E w \in Reqs : InfoTtl(w)

SpecRecreate == Init /\ [][NextRecreate]_vars

\* Holds of different lengths on two listings: create_hold without a key and
\* release_hold on either listing, and the clock moving a minute at a time.
PairDurations == {1, 2}

NextPair ==
    \/ nreq < MaxReq /\ \E l \in Listings, d \in PairDurations : BeginCreate(l, d, NoKey)
    \/ nreq < MaxReq /\ \E l \in Listings : ReleaseHold(l)
    \/ \E w \in Reqs : ConflictGet(w)
    \/ \E w \in Reqs : ConflictTtl(w)
    \/ \E w \in Reqs : InfoGet(w)
    \/ \E w \in Reqs : InfoTtl(w)
    \/ Tick(SecondsPerMinute)

SpecPair == Init /\ [][NextPair]_vars

\* Schedules the overlay reads: slots of one aircraft never overlap.
Schedules ==
    { { Slot("ac1", 0, 60, "AVAILABLE"), Slot("ac1", 60, 120, "AVAILABLE"),
        Slot("ac2", 0, 60, "MAINTENANCE") },
      { Slot("ac1", 0, 60, "BUSY"), Slot("ac1", 60, 120, "AVAILABLE"),
        Slot("ac2", 0, 60, "AVAILABLE") } }

\* The windows a read asks for.
Windows == { << 0, 30 >>, << 60, 120 >> }

AllAircraft == {None} \cup { Some(a) : a \in Listings }

\* The engine over a stored schedule.
InitOverlay ==
    /\ now = 0
    /\ ticks = 0
    /\ storeUp = TRUE
    /\ \/ hold = [ l \in Listings |-> None ]
          /\ nextInst = [ l \in Listings |-> 0 ]
       \/ hold = [ l \in Listings |-> IF l = "ac1" THEN EarlierHold ELSE None ]
          /\ nextInst = [ l \in Listings |-> IF l = "ac1" THEN 1 ELSE 0 ]
    /\ cache = [ h \in KeyHashes |-> None ]
    /\ nreq = 0
    /\ pc = [ w \in Reqs |-> "idle" ]
    /\ req = [ w \in Reqs |-> NoReq ]
    /\ loc = [ w \in Reqs |-> EmptyLoc ]
    /\ res = [ w \in Reqs |-> NoRes ]
    /\ slots \in Schedules
    /\ rate_limit = [ k \in RateKeys |-> None ]

\* get_availability next to create_hold without a key and release_hold on
\* ac1, and the clock.
NextOverlay ==
    \/ nreq < MaxReq /\ \E a \in AllAircraft, v \in Windows : BeginAvailability(a, v[1], v[2])
    \/ nreq < MaxReq /\ \E d \in Durations : BeginCreate("ac1", d, NoKey)
    \/ nreq < MaxReq /\ ReleaseHold("ac1")
    \/ \E w \in Reqs : AvailabilityHold(w)
    \/ \E w \in Reqs : ConflictGet(w)
    \/ \E w \in Reqs : ConflictTtl(w)
    \/ \E w \in Reqs : InfoGet(w)
    \/ \E w \in Reqs : InfoTtl(w)
    \/ \E d \in {1, SecondsPerMinute} : Tick(d)

SpecOverlay == InitOverlay /\ [][NextOverlay]_vars

\* check_slot_availability next to create_hold without a key and
\* release_hold on ac1, and the clock.
NextCheck ==
    \/ nreq < MaxReq /\ \E a \in Listings, v \in Windows : BeginCheck(a, v[1], v[2])
    \/ nreq < MaxReq /\ \E d \in Durations : BeginCreate("ac1", d, NoKey)
    \/ nreq < MaxReq /\ ReleaseHold("ac1")
    \/ \E w \in Reqs : CheckHold(w)
    \/ \E w \in Reqs : ConflictGet(w)
    \/ \E w \in Reqs : ConflictTtl(w)
    \/ \E w \in Reqs : InfoGet(w)
    \/ \E w \in Reqs : InfoTtl(w)
    \/ \E d \in {1, SecondsPerMinute} : Tick(d)

SpecCheck == InitOverlay /\ [][NextCheck]_vars

\* The three reads next to create_hold with a key on ac1, and the clock.
NextReads ==
    \/ nreq < MaxReq /\ BeginStatus("ac1")
    \/ nreq < MaxReq /\ \E a \in AllAircraft : BeginAvailability(a, 60, 120)
    \/ nreq < MaxReq /\ \E v \in Windows : BeginCheck("ac1", v[1], v[2])
    \/ nreq < MaxReq /\ \E d \in Durations, k \in Keys : BeginCreate("ac1", d, Some(k))
    \/ \E w \in Reqs : StatusTtl(w)
    \/ \E w \in Reqs : AvailabilityHold(w)
    \/ \E w \in Reqs : CheckHold(w)
    \/ \E w \in Reqs : create_hold_lock(w)
    \/ \E w \in Reqs : ConflictGet(w)
    \/ \E w \in Reqs : ConflictTtl(w)
    \/ \E w \in Reqs : InfoGet(w)
    \/ \E w \in Reqs : InfoTtl(w)
    \/ \E w \in Reqs : StoreKey(w)
    \/ \E d \in {1, SecondsPerMinute} : Tick(d)

SpecReads == InitOverlay /\ [][NextReads]_vars

\* duration_minutes as HoldRequest admits it: any int, here also zero.
AnyDurations == Durations \cup {0}

\* create_hold with well-formed and malformed durations on ac1.
NextMalformed ==
    \/ nreq < MaxReq /\ \E d \in AnyDurations, k \in AllKeys : BeginCreate("ac1", d, k)
    \/ \E w \in Reqs : create_hold_lock(w)
    \/ \E w \in Reqs : ConflictGet(w)
    \/ \E w \in Reqs : ConflictTtl(w)
    \/ \E w \in Reqs : InfoGet(w)
    \/ \E w \in Reqs : InfoTtl(w)
    \/ \E w \in Reqs : StoreKey(w)

SpecMalformed == Init /\ [][NextMalformed]_vars

\* ------------------------------------------------------------- claims

Arrived == 1..nreq
Done(w) == pc[w] = "done"
Creates == { w \in Arrived : req[w].op = "create" }
Releases == { w \in Arrived : req[w].op = "release" }
\* create_hold requests that have returned
Returned == { w \in Creates : Done(w) }
ReturnedActive == { w \in Returned : res[w].status = "ACTIVE" }
Unkeyed == { w \in Creates : req[w].key = NoKey }
Keyed(k) == { w \in Creates : req[w].key = Some(k) }

\* C1: a create_hold without idempotency key that returns ACTIVE reports the
\* hold its own acquire created: its acquire succeeded, the hold it reports
\* is that acquisition, and no two such requests report the same acquisition.
C1_ActiveOnlyForOwnAcquire ==
    /\ \A w \in ReturnedActive \cap Unkeyed :
          loc[w].hold_created /\ res[w].inst = loc[w].myInst
    /\ \A w1, w2 \in ReturnedActive \cap Unkeyed :
          (w1 # w2 /\ req[w1].listing = req[w2].listing)
             => res[w1].inst # res[w2].inst

\* C2: when N >= 2 create_hold requests without key have run on a listing
\* that had no hold, with no release and no expiry, exactly one has returned
\* 200 ACTIVE and each of the others 409 Conflict.
C2_ExactlyOneWinner ==
    \A l \in Listings :
        LET R == { w \in Creates : req[w].listing = l } IN
        (Cardinality(R) >= 2 /\ \A w \in R : Done(w))
           => /\ Cardinality({ w \in R : res[w].code = 200 /\ res[w].status = "ACTIVE" }) = 1
              /\ Cardinality({ w \in R : res[w].code = 409 }) = Cardinality(R) - 1

\* MaxRace requests raced for one listing and all have returned.
C2_Witness ==
    \E l \in Listings :
        LET R == { w \in Creates : req[w].listing = l } IN
        /\ Cardinality(R) = MaxRace
        /\ \A w \in R : Done(w)
        /\ \E w \in R : res[w].code = 409 /\ IsSome(res[w].existing)

\* C3: a create_hold whose acquire failed returns 409 Conflict carrying the
\* snapshot of the hold on the requested listing.
C3_FailedAcquireIsConflict ==
    \A w \in Returned :
        (loc[w].ranAcquire /\ ~loc[w].hold_created)
           => /\ res[w].code = 409
              /\ IsSome(res[w].existing)
              /\ Val(res[w].existing).listing_id = req[w].listing

\* The request of a step in which a create_hold with key k arrives.
ArrivesKeyed(k) ==
    /\ nreq' = nreq + 1
    /\ req'[nreq + 1].op = "create"
    /\ req'[nreq + 1].key = Some(k)

\* C4: a create_hold that arrives with key k and the payload of the one
\* earlier request bearing k, which returned ACTIVE less than 24h before,
\* returns ACTIVE with that request's hold_id and the replay flag set; the
\* earlier request's flag is not set.
C4_SequentialReplay ==
    [][ \A k \in Keys : \A w1 \in Arrived :
          ( /\ ArrivesKeyed(k)
            /\ Keyed(k) = {w1}
            /\ Done(w1) /\ res[w1].status = "ACTIVE"
            /\ now - res[w1].at < IdemTTL
            /\ req'[nreq + 1].listing = req[w1].listing
            /\ req'[nreq + 1].dur = req[w1].dur )
          => /\ pc'[nreq + 1] = "done"
             /\ res'[nreq + 1].code = 200
             /\ res'[nreq + 1].status = "ACTIVE"
             /\ res'[nreq + 1].replayed
             /\ ~res[w1].replayed
             /\ Val(res'[nreq + 1].body).hold_id = Val(res[w1].body).hold_id
      ]_vars

\* The second of two sequential calls with one key has replayed the first,
\* after the clock moved.
C4_Witness ==
    \E k \in Keys : \E w1, w2 \in Keyed(k) :
        /\ w1 < w2 /\ Done(w1) /\ Done(w2)
        /\ res[w1].status = "ACTIVE" /\ ~res[w1].replayed
        /\ res[w2].status = "ACTIVE" /\ res[w2].replayed
        /\ res[w2].at > res[w1].at
        /\ Val(res[w2].body).hold_id = Val(res[w1].body).hold_id

\* C5: two create_hold requests with the same key (and, the plainest case,
\* the same payload), within the 24h window of each other, that have both
\* returned, returned the same content: the same code, status and body
\* (hold_id, listing, status, expires_at, remaining_seconds), the replay
\* flag apart.
C5_SameKeySameContent ==
    \A k \in Keys : \A w1, w2 \in Keyed(k) \cap Returned :
        ( /\ req[w1].listing = req[w2].listing /\ req[w1].dur = req[w2].dur
          /\ res[w1].at - res[w2].at < IdemTTL /\ res[w2].at - res[w1].at < IdemTTL )
           => /\ res[w1].code = res[w2].code
              /\ res[w1].status = res[w2].status
              /\ res[w1].body = res[w2].body

\* C6: a create_hold that finds its key in the idempotency cache returns the
\* cached response and leaves every hold record, its TTL and the cache as
\* they were.
C6_HitHasNoSideEffect ==
    [][ \A k \in Keys :
          (ArrivesKeyed(k) /\ IsSome(cache[KeyHash(k)]))
          => /\ hold' = hold
             /\ cache' = cache
             /\ nextInst' = nextInst
             /\ pc'[nreq + 1] = "done"
             /\ res'[nreq + 1].body = Some(Val(cache[KeyHash(k)]).response.body)
             /\ res'[nreq + 1].replayed
      ]_vars

\* A request was answered from the cache while its listing had no hold.
C6_Witness ==
    \E w \in Returned :
        /\ res[w].replayed
        /\ ~IsSome(hold[req[w].listing])
        /\ IsSome(cache[KeyHash(Val(req[w].key))])

\* C7: of the requests bearing one key within the window, only the first to
\* arrive has executed the acquire; every later one that has returned is a
\* replay of the first one's result.
C7_OnlyFirstAcquires ==
    \A k \in Keys : \A w1, w2 \in Keyed(k) :
        (w1 < w2 /\ (Done(w1) => now - res[w1].at < IdemTTL))
           => /\ ~loc[w2].ranAcquire
              /\ Done(w2) => (res[w2].replayed /\ res[w2].body = res[w1].body)

C9_OutageIs500 ==
    \A w \in Arrived : (Done(w) /\ loc[w].sawError) => res[w].code = 500

\* The step in which release_hold(l) runs.
ReleaseArrives(l) ==
    /\ nreq' = nreq + 1
    /\ req'[nreq + 1].op = "release"
    /\ req'[nreq + 1].listing = l

\* C10: release_hold on a listing with a hold deletes it and returns 200
\* RELEASED; on a listing without one it returns 404 and changes nothing; of
\* the releases of one hold exactly one returns RELEASED: the RELEASED
\* answers on a listing never outnumber the holds that ended on it.
C10_ReleaseOnceElseNotFound ==
    /\ [][ \A l \in Listings :
             ReleaseArrives(l)
             => /\ pc'[nreq + 1] = "done"
                /\ cache' = cache
                /\ \A m \in Listings \ {l} : hold'[m] = hold[m]
                /\ IF IsSome(hold[l])
                   THEN /\ hold'[l] = None
                        /\ res'[nreq + 1].code = 200
                        /\ res'[nreq + 1].status = "RELEASED"
                   ELSE /\ hold'[l] = hold[l]
                        /\ res'[nreq + 1].code = 404
         ]_vars
    /\ [](\A l \in Listings :
             Cardinality({ w \in Releases : req[w].listing = l
                                            /\ res[w].status = "RELEASED" })
               <= nextInst[l] - (IF IsSome(hold[l]) THEN 1 ELSE 0))

\* Two releases raced for one hold: one RELEASED, one NotFound.
C10_Witness ==
    \E w1, w2 \in Releases :
        /\ req[w1].listing = req[w2].listing
        /\ res[w1].at = res[w2].at
        /\ res[w1].status = "RELEASED"
        /\ res[w2].code = 404

\* C11: a create_hold that follows a release_hold of the same listing which
\* returned RELEASED, with no other create on the listing in between, returns
\* 200 ACTIVE with the new hold its own acquire created.
C11_ReleaseThenCreateSucceeds ==
    \A w \in Returned \cap Unkeyed :
        ( /\ w > 1
          /\ req[w - 1].op = "release"
          /\ req[w - 1].listing = req[w].listing
          /\ res[w - 1].status = "RELEASED" )
           => /\ res[w].code = 200
              /\ res[w].status = "ACTIVE"
              /\ res[w].inst = loc[w].myInst

\* The step in which request w runs its acquire on listing l.
Acquires(w, l) ==
    /\ ~loc[w].ranAcquire
    /\ loc'[w].ranAcquire
    /\ req'[w].listing = l

On(l) == { w \in Arrived : req[w].listing = l }
FirstCreate(l) == { w \in Creates \cap On(l) : \A v \in Creates \cap On(l) : w <= v }
\* Listing l had no hold when the run began: every acquisition counted on it
\* is some request's.
StartedFree(l) ==
    nextInst[l] = Cardinality({ w \in Creates \cap On(l) : loc[w].hold_created })

\* C13: listings are independent.  A step of a request on one listing leaves
\* the record (and so the TTL) of every other listing as it was; an acquire
\* succeeds exactly when its own listing has no hold, whatever the others
\* hold; a clock step removes no hold whose own deadline has not come; and
\* on two listings that started free, with no release and no expiry, the
\* first create_hold of each returns 200 ACTIVE.
C13_ListingsIndependent ==
    /\ [][ \A l \in Listings :
             /\ (\E w \in Reqs : pc'[w] # pc[w] /\ req'[w].listing = l)
                => \A m \in Listings \ {l} : hold'[m] = hold[m]
             /\ \A w \in Reqs :
                  Acquires(w, l) => (loc'[w].hold_created <=> ~IsSome(hold[l]))
             /\ (IsSome(hold[l]) /\ pc' = pc /\ now' < Val(hold[l]).expire_at)
                => hold'[l] = hold[l]
         ]_vars
    /\ [](\A l1, l2 \in Listings : \A w1 \in FirstCreate(l1), w2 \in FirstCreate(l2) :
            ( /\ l1 # l2
              /\ StartedFree(l1) /\ StartedFree(l2)
              /\ ticks = 0
              /\ Releases = {}
              /\ Done(w1) /\ Done(w2) )
            => /\ res[w1].code = 200 /\ res[w1].status = "ACTIVE"
               /\ res[w2].code = 200 /\ res[w2].status = "ACTIVE")

\* Two create_hold requests on different listings overlapped (the one that
\* arrived first is still reading its record back when the other has
\* returned ACTIVE), each holding its own listing.
C13_Witness ==
    \E w1, w2 \in Creates :
        /\ w1 < w2
        /\ req[w1].listing # req[w2].listing
        /\ pc[w1] = "info_ttl" /\ loc[w1].hold_created
        /\ Done(w2) /\ res[w2].status = "ACTIVE" /\ loc[w2].hold_created
        /\ IsSome(hold[req[w1].listing]) /\ IsSome(hold[req[w2].listing])

\* get_hold_status requests.
Statuses == { w \in Arrived : req[w].op = "status" }

\* C14: get_hold_status answers hold_exists = false exactly when the listing
\* has no hold at its read, and otherwise ACTIVE with a remaining_seconds
\* that is positive and at most the ttl_seconds of the hold it reports,
\* whatever happens to the hold while the request runs.
C14_StatusReadsLiveHold ==
    /\ [][ \A l \in Listings :
             (nreq' = nreq + 1 /\ req'[nreq + 1].op = "status" /\ req'[nreq + 1].listing = l)
             => (res'[nreq + 1].status = "NO_HOLD" <=> ~IsSome(hold[l]))
         ]_vars
    /\ [](\A w \in Statuses :
            (Done(w) /\ res[w].status # "NO_HOLD")
            => /\ res[w].code = 200 /\ res[w].status = "ACTIVE"
               /\ Val(res[w].body).remaining_seconds > 0
               /\ Val(res[w].body).remaining_seconds
                    <= Val(res[w].body).expires_at - Val(res[w].body).hold_id[3])

\* get_availability and check_slot_availability requests.
Availabilities == { w \in Arrived : req[w].op = "availability" }
Checks == { w \in Arrived : req[w].op = "check" }

\* The slots request w has enriched so far: its result once it has returned.
Enriched(w) == IF Done(w) THEN Val(res[w].body).slots ELSE loc[w].out

\* A hold on aircraft a is in the store and its window meets [s, e).
ActiveHoldOverlaps(a, s, e) ==
    /\ IsSome(hold[a])
    /\ Val(hold[a]).data.created_at < e
    /\ s < Val(hold[a]).data.created_at + Val(hold[a]).data.expires_in_seconds

\* C15: when get_availability looks up the hold for an AVAILABLE slot, the
\* slot's effective_status becomes ON_HOLD if at that moment an active hold
\* on the slot's aircraft overlaps the slot's window, and AVAILABLE if not;
\* every AVAILABLE slot of a result went through that lookup.
C15_AvailableSlotShowsHold ==
    /\ [][ \A w \in Availabilities :
             (pc[w] = "av_hold" /\ (pc'[w] # pc[w] \/ loc'[w].rows # loc[w].rows))
             => LET slot == Head(loc[w].rows)
                    out == IF pc'[w] = "done" THEN Val(res'[w].body).slots
                                              ELSE loc'[w].out
                    view == out[Len(loc[w].out) + 1] IN
                /\ slot.status = "AVAILABLE"
                /\ view.aircraft_id = slot.aircraft_id
                /\ view.start_time = slot.start_time
                /\ view.end_time = slot.end_time
                /\ view.effective_status =
                     IF ActiveHoldOverlaps(slot.aircraft_id, slot.start_time, slot.end_time)
                     THEN "ON_HOLD" ELSE "AVAILABLE"
         ]_vars
    /\ [](\A w \in Availabilities : \A i \in 1..Len(Enriched(w)) :
            Enriched(w)[i].status = "AVAILABLE"
            => /\ Enriched(w)[i].effective_status \in {"ON_HOLD", "AVAILABLE"}
               /\ Enriched(w)[i].effective_status = "ON_HOLD"
                    <=> IsSome(Enriched(w)[i].hold_info))

\* One get_availability result shows an AVAILABLE slot ON_HOLD and another
\* AVAILABLE slot, of the same aircraft, AVAILABLE.
C15_Witness ==
    \E w \in Availabilities :
        /\ Done(w)
        /\ \E i, j \in 1..Len(Enriched(w)) :
             /\ Enriched(w)[i].aircraft_id = Enriched(w)[j].aircraft_id
             /\ Enriched(w)[i].status = "AVAILABLE"
             /\ Enriched(w)[i].effective_status = "ON_HOLD"
             /\ Enriched(w)[j].status = "AVAILABLE"
             /\ Enriched(w)[j].effective_status = "AVAILABLE"

\* C16: in every get_availability result a BUSY or MAINTENANCE slot has its
\* base status as effective_status, whatever the lock state, and a slot is
\* shown AVAILABLE only if its base status is AVAILABLE.
C16_LockOnlySuppresses ==
    \A w \in Availabilities : \A i \in 1..Len(Enriched(w)) :
        /\ Enriched(w)[i].status \in {"BUSY", "MAINTENANCE"}
           => Enriched(w)[i].effective_status = Enriched(w)[i].status
        /\ Enriched(w)[i].effective_status = "AVAILABLE"
           => Enriched(w)[i].status = "AVAILABLE"

\* A result shows a BUSY slot as BUSY while a hold on its aircraft is active
\* over the slot's window.
C16_Witness ==
    \E w \in Availabilities :
        /\ Done(w)
        /\ \E i \in 1..Len(Enriched(w)) :
             /\ Enriched(w)[i].status = "BUSY"
             /\ Enriched(w)[i].effective_status = "BUSY"
             /\ ActiveHoldOverlaps(Enriched(w)[i].aircraft_id,
                                   Enriched(w)[i].start_time, Enriched(w)[i].end_time)

\* A BUSY or MAINTENANCE slot of aircraft a overlaps the window [s, e).
BlockedWindow(a, s, e) ==
    \E x \in slots :
        /\ x.aircraft_id = a
        /\ x.status \in {"BUSY", "MAINTENANCE"}
        /\ x.start_time < e /\ s < x.end_time

\* C17: check_slot_availability decides in priority order.  A BUSY or
\* MAINTENANCE slot over the window gives available = false, SLOT_CONFLICT,
\* at once and also when a hold is active; without one, the hold lookup gives
\* available = false, ACTIVE_HOLD and the hold when an active hold overlaps
\* the window, and available = true with no reason otherwise.
C17_CheckPriority ==
    /\ [][ \A w \in Reqs :
             (nreq' = nreq + 1 /\ w = nreq + 1 /\ req'[w].op = "check")
             => LET a == Val(req'[w].aircraft_id) IN
                IF BlockedWindow(a, req'[w].start, req'[w].end)
                THEN /\ pc'[w] = "done"
                     /\ Val(res'[w].body).available = FALSE
                     /\ Val(res'[w].body).reason = Some("SLOT_CONFLICT")
                ELSE pc'[w] = "ck_hold"
         ]_vars
    /\ [][ \A w \in Checks :
             (pc[w] = "ck_hold" /\ pc'[w] # pc[w])
             => LET a == Val(req[w].aircraft_id) IN
                /\ pc'[w] = "done"
                /\ IF ActiveHoldOverlaps(a, req[w].start, req[w].end)
                   THEN /\ Val(res'[w].body).available = FALSE
                        /\ Val(res'[w].body).reason = Some("ACTIVE_HOLD")
                        /\ IsSome(Val(res'[w].body).hold_info)
                        /\ Val(Val(res'[w].body).hold_info).created_at
                             = Val(hold[a]).data.created_at
                        /\ Val(Val(res'[w].body).hold_info).remaining_seconds
                             = Val(hold[a]).expire_at - now
                   ELSE /\ Val(res'[w].body).available = TRUE
                        /\ Val(res'[w].body).reason = None
         ]_vars
    /\ [](\A w \in Checks :
            Done(w)
            => (Val(res[w].body).reason = Some("SLOT_CONFLICT")
                  <=> BlockedWindow(Val(req[w].aircraft_id), req[w].start, req[w].end)))

\* A check answered SLOT_CONFLICT while a hold is active over its window,
\* and a check of an aircraft with no slot and no hold answered available.
C17_Witness ==
    /\ \E w \in Checks :
         /\ Done(w)
         /\ Val(res[w].body).reason = Some("SLOT_CONFLICT")
         /\ ActiveHoldOverlaps(Val(req[w].aircraft_id), req[w].start, req[w].end)
    /\ \E w \in Checks :
         /\ Done(w)
         /\ Val(res[w].body).available = TRUE
         /\ Val(res[w].body).reason = None
         /\ ConflictingSlots(Val(req[w].aircraft_id), req[w].start, req[w].end) = {}

\* The request r is a read.
IsRead(r) == r.op \in {"status", "availability", "check"}

\* C18: a step of get_hold_status, get_availability or
\* check_slot_availability changes no hold record, no hold's deadline (so no
\* remaining TTL), no idempotency cache entry and no slot.
C18_ReadsMutateNothing ==
    [][ (\E w \in Reqs : IsRead(req'[w]) /\ (pc'[w] # pc[w] \/ loc'[w] # loc[w]))
        => /\ hold' = hold
           /\ cache' = cache
           /\ now' = now
           /\ nextInst' = nextInst
           /\ slots' = slots
      ]_vars

\* A get_hold_status returned ACTIVE after a create_hold with a key had
\* returned: the store held a hold and a cache entry when the read ran, and
\* still holds both.
C18_Witness ==
    \E w \in Statuses : \E v \in Returned :
        /\ Done(w) /\ res[w].status = "ACTIVE"
        /\ req[v].key # NoKey /\ res[v].status = "ACTIVE"
        /\ res[w].at > res[v].at
        /\ IsSome(hold[req[w].listing])
        /\ IsSome(cache[KeyHash(Val(req[v].key))])

\* C19: a stored hold changes only by leaving the store, through a release
\* of its listing or through its deadline: every other step leaves its
\* created_at, ttl_seconds and deadline as they were.  In particular an
\* acquire on a held listing fails and leaves the hold untouched.
C19_HoldNeverRewritten ==
    [][ \A l \in Listings :
          IsSome(hold[l])
          => /\ \/ hold'[l] = hold[l]
                \/ hold'[l] = None /\ ReleaseArrives(l)
                \/ hold'[l] = None /\ now' >= Val(hold[l]).expire_at /\ pc' = pc
             /\ \A w \in Reqs :
                  Acquires(w, l) => (~loc'[w].hold_created /\ hold'[l] = hold[l])
      ]_vars

\* A create_hold lost against a hold made earlier on the clock and returned
\* 409; the hold is still in the store with its first deadline.
C19_Witness ==
    \E w \in Returned :
        LET l == req[w].listing IN
        /\ res[w].code = 409
        /\ IsSome(hold[l])
        /\ Val(hold[l]).data.created_at = Val(res[w].existing).created_at
        /\ res[w].at > Val(hold[l]).data.created_at
        /\ Val(hold[l]).expire_at
             = Val(hold[l]).data.created_at + Val(hold[l]).data.expires_in_seconds

\* C20: a create_hold whose duration_minutes is not positive is rejected
\* with a validation error (422) before any store call: it has run no
\* acquire and its answer is neither 409 nor 500.
C20_MalformedRejected ==
    \A w \in Returned :
        req[w].dur <= 0
        => /\ res[w].code = 422
           /\ ~loc[w].ranAcquire

\* ------------------------------------------------ identity of a hold

\* create_hold with a key, get_hold_status and release_hold on one listing,
\* and the clock moving a second at a time.
NextIdentity ==
    \/ nreq < MaxRace /\ \E d \in Durations, k \in Keys : BeginCreate("ac1", d, Some(k))
    \/ nreq < MaxRace /\ BeginStatus("ac1")
    \/ nreq < MaxRace /\ ReleaseHold("ac1")
    \/ \E w \in Reqs : create_hold_lock(w)
    \/ \E w \in Reqs : ConflictGet(w)
    \/ \E w \in Reqs : ConflictTtl(w)
    \/ \E w \in Reqs : InfoGet(w)
    \/ \E w \in Reqs : InfoTtl(w)
    \/ \E w \in Reqs : StoreKey(w)
    \/ \E w \in Reqs : StatusTtl(w)
    \/ Tick(1)

SpecIdentity == Init /\ [][NextIdentity]_vars

\* Requests that have returned an ACTIVE body: create_hold, replayed or not,
\* and get_hold_status.
Reported == { w \in Arrived : Done(w) /\ res[w].status = "ACTIVE" }

\* The create_hold requests whose acquire made the hold now on listing l.
AcquirersOf(l) ==
    { c \in Creates : /\ req[c].listing = l
                      /\ loc[c].hold_created
                      /\ IsSome(hold[l])
                      /\ loc[c].myInst = Val(hold[l]).inst }

\* C21: while a hold is in the store, every ACTIVE answer that reports it
\* (from get_hold_status, from create_hold, from a replay) carries the
\* hold_id made of the listing and the hold's created_at, which is the
\* hold_id the create_hold that acquired it was given.
C21_HoldIdIsStable ==
    \A l \in Listings : \A w \in Reported :
        ( /\ IsSome(hold[l])
          /\ Val(res[w].body).listing_id = l
          /\ res[w].inst = Val(hold[l]).inst )
        => /\ Val(res[w].body).hold_id = HoldId(l, Val(hold[l]).data.created_at)
           /\ \A c \in AcquirersOf(l) \cap Reported :
                Val(res[w].body).hold_id = Val(res[c].body).hold_id

\* A create_hold acquired a hold and returned; seconds later, the hold still
\* in the store, a replay of its key and a get_hold_status have returned.
C21_Witness ==
    \E l \in Listings : \E c \in AcquirersOf(l) \cap Reported :
        \E w1 \in Creates \cap Reported, w2 \in Statuses \cap Reported :
            /\ res[w1].replayed /\ res[w1].inst = Val(hold[l]).inst
            /\ req[w2].listing = l /\ res[w2].inst = Val(hold[l]).inst
            /\ res[w1].at > res[c].at
            /\ res[w2].at > res[c].at


\* ------------------------------------------------ what the cache holds

\* create_hold with a key and release_hold on one listing over a store that
\* may fail and recover at any moment; the clock stands still.
NextCached ==
    \/ nreq < MaxReq /\ \E d \in Durations, k \in Keys : BeginCreate("ac1", d, Some(k))
    \/ nreq < MaxReq /\ ReleaseHold("ac1")
    \/ \E w \in Reqs : create_hold_lock(w)
    \/ \E w \in Reqs : ConflictGet(w)
    \/ \E w \in Reqs : ConflictTtl(w)
    \/ \E w \in Reqs : InfoGet(w)
    \/ \E w \in Reqs : InfoTtl(w)
    \/ \E w \in Reqs : StoreKey(w)
    \/ StoreFail
    \/ StoreRecover

SpecCached == Init /\ [][NextCached]_vars

\* C22: the idempotency cache is written only by a create_hold that returns
\* 200 ACTIVE, in its last step, under its own key and with the response it
\* returns; a request that has returned 409 or 500 wrote nothing, and every
\* cached response has status ACTIVE.
C22_OnlySuccessCached ==
    /\ [](\A h \in KeyHashes :
            IsSome(cache[h]) => Val(cache[h]).response.body.status = "ACTIVE")
    /\ [][ \A h \in KeyHashes :
             (cache'[h] # cache[h] /\ IsSome(cache'[h]))
             => \E w \in Creates :
                  /\ req[w].key # NoKey /\ KeyHash(Val(req[w].key)) = h
                  /\ pc[w] = "store" /\ pc'[w] = "done"
                  /\ res'[w].code = 200 /\ res'[w].status = "ACTIVE"
                  /\ Some(Val(cache'[h]).response.body) = res'[w].body
         ]_vars
    /\ [][ \A w \in Creates :
             (pc'[w] = "done" /\ pc[w] # "done" /\ res'[w].code \in {409, 500})
             => cache' = cache
         ]_vars

\* Of two create_hold requests with one key, one has returned 409 or 500 and
\* the other has stored its ACTIVE response, which a replay can now return.
C22_Witness ==
    \E k \in Keys : \E w1, w2 \in Keyed(k) \cap Returned :
        /\ res[w1].code \in {409, 500}
        /\ res[w2].code = 200 /\ ~res[w2].replayed
        /\ IsSome(cache[KeyHash(k)])
        /\ Some(Val(cache[KeyHash(k)]).response.body) = res[w2].body


\* create_hold requests with key k that stored their response: they returned
\* ACTIVE without the replay flag, at the second of the store.
Stored(k) == { w \in Keyed(k) \cap ReturnedActive : ~res[w].replayed }

\* Key k was stored once and every record stored under it is 24h old.
Lapsed(k) ==
    /\ Stored(k) # {}
    /\ \A w \in Stored(k) : now - res[w].at >= IdemTTL

\* C23: a create_hold that arrives with a key whose record has lapsed after
\* its 24h misses the cache and goes on to the acquire; a request that went
\* on to the acquire runs it, returns without the replay flag, and when it
\* returns 200 it has just stored its response with a fresh 24h.
C23_LapsedKeyIsNew ==
    /\ [][ \A k \in Keys :
             (ArrivesKeyed(k) /\ Lapsed(k))
             => /\ pc'[nreq + 1] = "acquire"
                /\ cache' = cache
                /\ ~IsSome(cache[KeyHash(k)])
         ]_vars
    /\ [][ \A w \in Creates :
             (pc[w] = "acquire" /\ pc'[w] # pc[w]) => loc'[w].ranAcquire
         ]_vars
    /\ [][ \A k \in Keys : \A w \in Keyed(k) :
             (loc[w].ranAcquire /\ pc[w] # "done" /\ pc'[w] = "done")
             => /\ ~res'[w].replayed
                /\ res'[w].code = 200
                   => cache'[KeyHash(k)] =
                        Some([ response |-> [ body |-> Val(res'[w].body),
                                              inst |-> res'[w].inst ],
                               expire_at |-> now + IdemTTL ])
         ]_vars

\* A key was stored, 24h went by, and a second create_hold with the key ran
\* the acquire, took the listing anew, returned ACTIVE without the flag and
\* left a record that lives another 24h.
C23_Witness ==
    \E k \in Keys : \E w1 \in Stored(k) : \E w2 \in Stored(k) :
        /\ w1 < w2
        /\ res[w2].at - res[w1].at >= IdemTTL
        /\ loc[w2].ranAcquire /\ loc[w2].hold_created
        /\ Val(res[w2].body).hold_id # Val(res[w1].body).hold_id
        /\ IsSome(cache[KeyHash(k)])
        /\ Val(cache[KeyHash(k)]).expire_at = res[w2].at + IdemTTL


\* ------------------------------------------------ the stored schedule

\* The windows and statuses a create_or_update_slot call comes with; the
\* last window is one the route refuses.
SlotWindows == { << 0, 60 >>, << 60, 120 >>, << 30, 60 >>, << 0, 120 >>, << 60, 60 >> }
SlotStatuses == { "AVAILABLE", "BUSY" }

\* No request is between two of its awaits.
Quiet == \A w \in Reqs : pc[w] \in {"idle", "done"}

\* A sequence of create_or_update_slot calls, one after the other, on an
\* empty table.
NextSlots ==
    \/ /\ nreq < MaxRace
       /\ Quiet
       /\ \E a \in Listings, v \in SlotWindows, st \in SlotStatuses :
             BeginSlot(a, v[1], v[2], st)
    \/ \E w \in Reqs : SlotExact(w)
    \/ \E w \in Reqs : SlotUpdate(w)
    \/ \E w \in Reqs : SlotInsert(w)

SpecSlots == Init /\ [][NextSlots]_vars

\* create_or_update_slot calls.
SlotCalls == { w \in Arrived : req[w].op = "slot" }

\* Two slots of one aircraft share some instant.
SlotsOverlap(x, y) ==
    /\ x.aircraft_id = y.aircraft_id
    /\ x.start_time < y.end_time
    /\ y.start_time < x.end_time

\* C24: no two stored slots of one aircraft overlap, and a call with
\* end > start that returns has done one of three things: updated in place
\* the slot with exactly its window, or answered with an error and left the
\* table as it was because its window overlaps another slot, or inserted its
\* slot; no other step of a call changes the table.
C24_SlotsNeverOverlap ==
    /\ [](\A x, y \in slots : x # y => ~SlotsOverlap(x, y))
    /\ [][ \A w \in SlotCalls :
             (pc[w] # "done" /\ pc'[w] = "done")
             => LET a == Val(req[w].aircraft_id)
                    mine == Slot(a, req[w].start, req[w].end, req[w].status)
                    exact == { x \in slots : /\ x.aircraft_id = a
                                             /\ x.start_time = mine.start_time
                                             /\ x.end_time = mine.end_time }
                    others == { x \in slots \ exact : SlotsOverlap(x, mine) } IN
                IF exact # {}
                THEN /\ slots' = (slots \ exact) \cup {mine}
                     /\ res'[w].code = 200
                ELSE IF others # {}
                THEN /\ slots' = slots
                     /\ res'[w].code = 409
                ELSE /\ slots' = slots \cup {mine}
                     /\ res'[w].code = 200
         ]_vars
    /\ [][ (\A w \in Reqs : pc'[w] = "done" => pc[w] = "done") => slots' = slots ]_vars

\* Three calls on one aircraft have returned: one inserted a slot, one
\* changed the status of that slot in place, and one, whose window contains
\* the slot, was refused; the table holds the one slot.
C24_Witness ==
    \E w1, w2, w3 \in SlotCalls :
        /\ Done(w1) /\ Done(w2) /\ Done(w3)
        /\ w1 < w2 /\ w1 < w3
        /\ req[w1].aircraft_id = req[w2].aircraft_id
        /\ req[w1].aircraft_id = req[w3].aircraft_id
        /\ res[w1].code = 200 /\ res[w2].code = 200
        /\ req[w2].start = req[w1].start /\ req[w2].end = req[w1].end
        /\ req[w2].status # req[w1].status
        /\ res[w3].code = 409
        /\ req[w3].start < req[w1].start /\ req[w1].end < req[w3].end
        /\ Cardinality({ x \in slots : x.aircraft_id = Val(req[w1].aircraft_id) }) = 1


\* ------------------------------------------------ the rate limiter's bound

\* The limits and the window the limiter is called with.
RateLimits == {1, 2}
RateWindow == 60

\* is_rate_limited calls on one key with a moving clock.
NextRate ==
    \/ nreq < MaxRace /\ \E k \in RateKeys, n \in RateLimits : is_rate_limited(k, n, RateWindow)
    \/ \E d \in {1, RateWindow} : Tick(d)

SpecRate == Init /\ [][NextRate]_vars

\* The calls on key k, and those answered not limited.
RateCalls(k) == { w \in Arrived : req[w].op = "rate" /\ req[w].rate_key = k }
RateAdmitted(k) == { w \in RateCalls(k) : res[w].code = 200 }

\* C25: when all calls on a key come with one limit and one window, the
\* calls answered not limited within any window seconds are at most limit:
\* counted back from each admitted call, over the window that ends with it.
C25_AtMostLimitPerWindow ==
    \A k \in RateKeys : \A w \in RateAdmitted(k) :
        (\A v \in RateCalls(k) : req[v].limit = req[w].limit /\ req[v].window = req[w].window)
        => Cardinality({ v \in RateAdmitted(k) :
                           /\ res[v].at > res[w].at - req[w].window
                           /\ res[v].at <= res[w].at }) <= req[w].limit


\* ------------------------------------------------ whose release it is

\* The caller that was given the first hold on listing l sends
\* release_hold(l); the request names the listing and nothing else.
FirstHolderReleases(l) ==
    /\ nextInst[l] >= 1
    /\ ReleaseHold(l)

\* create_hold without a key by any caller, release_hold only by the holder
\* of the listing's first hold, and the clock moving a minute at a time.
NextStale ==
    \/ nreq < MaxReq /\ \E d \in Durations : BeginCreate("ac1", d, NoKey)
    \/ nreq < MaxReq /\ FirstHolderReleases("ac1")
    \/ \E w \in Reqs : ConflictGet(w)
    \/ \E w \in Reqs : ConflictTtl(w)
    \/ \E w \in Reqs : InfoGet(w)
    \/ \E w \in Reqs : InfoTtl(w)
    \/ Tick(SecondsPerMinute)

SpecStale == Init /\ [][NextStale]_vars

\* C26: a release_hold sent by the holder of the listing's first hold
\* removes no later hold: when it arrives while the listing is held by a
\* later acquisition, the hold stays as it is and the answer is not RELEASED.
C26_StaleReleaseKeepsNewHold ==
    [][ \A l \in Listings :
          (ReleaseArrives(l) /\ IsSome(hold[l]) /\ Val(hold[l]).inst > 1)
          => /\ hold'[l] = hold[l]
             /\ res'[nreq + 1].status # "RELEASED"
      ]_vars


\* ------------------------------------------------ one key, two listings

\* create_hold with a key on either listing.
NextReuse ==
    \/ nreq < MaxReq /\ \E l \in Listings, d \in Durations, k \in Keys : BeginCreate(l, d, Some(k))
    \/ \E w \in Reqs : create_hold_lock(w)
    \/ \E w \in Reqs : ConflictGet(w)
    \/ \E w \in Reqs : ConflictTtl(w)
    \/ \E w \in Reqs : InfoGet(w)
    \/ \E w \in Reqs : InfoTtl(w)
    \/ \E w \in Reqs : StoreKey(w)

SpecReuse == Init /\ [][NextReuse]_vars

\* C27: a create_hold that has returned ACTIVE, replayed or not, reports a
\* hold on the listing it asked for: the listing_id and the hold_id of its
\* answer name the request's own listing, never the listing of another
\* request that used the key.
C27_ReplayOnlyForSameListing ==
    \A w \in ReturnedActive :
        /\ Val(res[w].body).listing_id = req[w].listing
        /\ Val(res[w].body).hold_id[2] = req[w].listing


\* ------------------------------------------------ one id per hold

\* C28: two create_hold requests that each acquired the listing and each
\* returned its own hold, two different acquisitions of one listing, were
\* given different hold_ids.
C28_DistinctHoldsDistinctIds ==
    \A w1, w2 \in ReturnedActive :
        ( /\ req[w1].listing = req[w2].listing
          /\ loc[w1].hold_created /\ res[w1].inst = loc[w1].myInst
          /\ loc[w2].hold_created /\ res[w2].inst = loc[w2].myInst
          /\ res[w1].inst # res[w2].inst )
        => Val(res[w1].body).hold_id # Val(res[w2].body).hold_id


\* ------------------------------------------------ one view per response

\* The slot shown as v lies under the hold h: their windows overlap.
Under(v, h) ==
    /\ h.created_at < v.end_time
    /\ v.start_time < h.created_at + h.expires_in_seconds

\* C29: in one get_availability result, when an AVAILABLE slot is shown
\* ON_HOLD under a hold, every other AVAILABLE slot of that aircraft lying
\* under the same hold is shown ON_HOLD too.
C29_OneViewPerResponse ==
    \A w \in Availabilities :
        Done(w)
        => \A i, j \in 1..Len(Enriched(w)) :
             LET x == Enriched(w)[i]
                 y == Enriched(w)[j] IN
             ( /\ x.aircraft_id = y.aircraft_id
               /\ x.status = "AVAILABLE" /\ y.status = "AVAILABLE"
               /\ IsSome(x.hold_info)
               /\ Under(y, Val(x.hold_info)) )
             => y.effective_status = x.effective_status


\* ------------------------------------------------ the overlap test

\* The instants a window starts or ends at.
OverlapTimes == {0, 30, 60, 120}

\* create_or_update_slot calls, one after the other, that fill an empty
\* table, and check_slot_availability calls on ac1 that read it; no holds.
NextOverlap ==
    \/ /\ nreq < MaxRace
       /\ Quiet
       /\ \E a \in Listings, v \in SlotWindows, st \in SlotStatuses :
             BeginSlot(a, v[1], v[2], st)
    \/ \E w \in Reqs : SlotExact(w)
    \/ \E w \in Reqs : SlotUpdate(w)
    \/ \E w \in Reqs : SlotInsert(w)
    \/ /\ nreq < MaxRace
       /\ \E s, e \in OverlapTimes : s < e /\ BeginCheck("ac1", s, e)
    \/ \E w \in Reqs : CheckHold(w)

SpecOverlap == Fresh /\ [][NextOverlap]_vars

\* C30: for every stored slot (start < end) and every window with
\* start < end, the three-clause query selects the slot exactly when the
\* slot is of the aircraft asked for and overlaps the half-open window:
\* slot.start < e and slot.end > s.  A slot that ends at s or starts at e is
\* not selected.
C30_ThreeClausesAreOverlap ==
    \A a \in Listings : \A s, e \in OverlapTimes :
        s < e
        => ConflictingSlots(a, s, e)
             = { x \in slots : /\ x.aircraft_id = a
                               /\ x.start_time < e
                               /\ x.end_time > s }

\* A BUSY slot was stored on ac1; a check of a window that only touches it
\* was not answered SLOT_CONFLICT, and a check of a window that overlaps it
\* was.
C30_Witness ==
    \E x \in slots : \E w1, w2 \in Checks :
        /\ x.aircraft_id = "ac1" /\ x.status = "BUSY"
        /\ Done(w1) /\ Done(w2)
        /\ (req[w1].start = x.end_time \/ req[w1].end = x.start_time)
        /\ Val(res[w1].body).reason # Some("SLOT_CONFLICT")
        /\ req[w2].start < x.end_time /\ x.start_time < req[w2].end
        /\ Val(res[w2].body).reason = Some("SLOT_CONFLICT")
        /\ Val(res[w2].body).slots = {x}


=============================================================================
